---- MODULE Spec2Model ----
(***************************************************************************)
(* Model of process_video.py: one run of process_frame, from the existence *)
(* check of the source file to the reproduction-command block.             *)
(*                                                                         *)
(* A clip is a record [stages, width, height, tiles]: the ordered filters  *)
(* applied to the source, its frame size, and (for the 2x2 grid only) the  *)
(* four stacked quadrant clips.  Optional values (Python's None) are       *)
(* sequences of length 0 or 1.  The plugins and havsfunc are outside the   *)
(* repository: whether each can run is part of the environment record env. *)
(***************************************************************************)
EXTENDS Integers, Sequences, FiniteSets, TLC

VARIABLES args, env, pc, start_frame, tff, out, i, attempted, log, printed, raised

vars == <<args, env, pc, start_frame, tff, out, i, attempted, log, printed, raised>>

(* ------------------------------ bounds -------------------------------- *)

\* Largest source frame count explored.
MaxFrames == 3
\* Largest --frame value explored (the smallest is -1).
MaxStart == 4
\* Largest --count explored.
MaxCount == 3
\* Largest --step explored (the smallest is -1).
MaxStep == 2
\* Largest --scale explored.
MaxScale == 2
\* Largest _FieldBased value explored (0, 1, 2 are the defined ones).
MaxHint == 3
\* Largest --time explored, in whole seconds.
MaxSecs == 1

(* --------------------------- optional values -------------------------- *)

None == <<>>

Some(x) == <<x>>

IsNone(o) == o = <<>>

Get(o) == o[1]

(* ------------------------------ clips --------------------------------- *)

Stage(op, arg, a, b) == [op |-> op, arg |-> arg, a |-> a, b |-> b]

Clip(stages, w, h) == [stages |-> stages, width |-> w, height |-> h, tiles |-> <<>>]

Apply(c, st) == [c EXCEPT !.stages = Append(@, st)]

Info(msg) == [level |-> "INFO", msg |-> msg, n |-> 0]

Warning(msg) == [level |-> "WARNING", msg |-> msg, n |-> 0]

Error(msg, n) == [level |-> "ERROR", msg |-> msg, n |-> n]

\* The outcome of a call that builds part of the graph: the clip, the log
\* lines written so far, and the name of the call that raised ("" if none).
Ok(c, lg) == [clip |-> c, log |-> lg, raised |-> ""]

Raise(r, what) == [r EXCEPT !.raised = what]

(* ------------------------------ helpers ------------------------------- *)

\* detect_matrix: BT.709 from 1280 pixels of width on.
HDWidth == 1280

detect_matrix(c) == IF c.width >= HDWidth THEN "709" ELSE "601"

\* str.capitalize on the words argparse lets through.
Capitalize(s) ==
    CASE s = "none" -> "None"
      [] s = "light" -> "Light"
      [] s = "medium" -> "Medium"
      [] s = "heavy" -> "Heavy"
      [] s = "pre" -> "Pre"
      [] s = "post" -> "Post"
      [] OTHER -> s

\* q_preset_name.replace(" ", "")
RemoveSpaces(s) == IF s = "Very Slow" THEN "VerySlow" ELSE s

\* strength_map.get(strength, 2.0), in tenths.
Sigma(strength) ==
    CASE strength = "none" -> 0
      [] strength = "light" -> 10
      [] strength = "medium" -> 20
      [] strength = "heavy" -> 35
      [] OTHER -> 20

\* apply_stabilization: any failure of DePan is logged and the clip returned.
apply_stabilization(r, enable) ==
    IF r.raised # "" \/ ~enable THEN r
    ELSE LET lg == Append(r.log, Info("Applying global motion stabilization"))
         IN  IF env.depan = "ok"
             THEN Ok(Apply(Apply(r.clip, Stage("DePanEstimate", "", 8, 5)),
                           Stage("DePan", "", 5, 1)), lg)
             ELSE Ok(r.clip, Append(lg, Error("Stabilization failed", 0)))

\* apply_noise_reduction: only a missing plugin (AttributeError) is caught.
apply_noise_reduction(r, strength) ==
    IF r.raised # "" \/ Sigma(strength) = 0 THEN r
    ELSE CASE env.fft3d = "ok" ->
                Ok(Apply(r.clip, Stage("FFT3DFilter", strength, Sigma(strength), 4)), r.log)
           [] env.fft3d = "missing" ->
                Ok(r.clip, Append(r.log, Warning("FFT3DFilter plugin not found. Skipping denoise.")))
           [] OTHER -> Raise(r, "FFT3DFilter")

\* haf.QTGMC succeeds with this preset in this environment.
QtgmcRuns(preset) == env.qtgmc = "ok" \/ (env.qtgmc = "fail_slow" /\ preset = "Fast")

\* haf.QTGMC(v_prefilt, Preset=..., TFF=tff, FPSDivisor=2, ...): one call, unguarded.
QTGMC(r, preset, field) ==
    IF r.raised # "" THEN r
    ELSE IF QtgmcRuns(preset)
         THEN Ok(Apply(r.clip, Stage("QTGMC", preset, IF field THEN 1 ELSE 0, 2)), r.log)
         ELSE Raise(r, "QTGMC")

\* scale_node: the znedi3 calls of nnedi3_resample are unguarded.
scale_node(r, scale, resizer) ==
    IF r.raised # "" \/ scale = 1 THEN r
    ELSE LET w == r.clip.width * scale
             h == r.clip.height * scale
             lg == Append(r.log, Info("Scaling output"))
             sized(c) == [c EXCEPT !.width = w, !.height = h]
         IN  IF resizer = "nnedi3_resample"
             THEN IF env.znedi3 = "ok"
                  THEN Ok(sized(Apply(Apply(Apply(Apply(Apply(r.clip,
                              Stage("znedi3.nnedi3", "", 0, 1)),
                              Stage("std.Transpose", "", 0, 0)),
                              Stage("znedi3.nnedi3", "", 0, 1)),
                              Stage("std.Transpose", "", 0, 0)),
                              Stage("resize.Bicubic", "", w, h))), lg)
                  ELSE Raise(Ok(r.clip, lg), "znedi3")
             ELSE IF resizer = "lanczos"
                  THEN Ok(sized(Apply(r.clip, Stage("resize.Lanczos", "", w, h))), lg)
                  ELSE Ok(sized(Apply(r.clip, Stage("resize.Bicubic", "", w, h))), lg)

\* core.resize.Bicubic(c, format=vs.RGB24, matrix_in_s=detect_matrix(c))
ToRGB(r) ==
    IF r.raised # "" THEN r
    ELSE Ok(Apply(r.clip, Stage("RGB24", detect_matrix(r.clip), 0, 0)), r.log)

\* prep: one labelled quadrant of the grid.
prep(r, lbl, scale, resizer) ==
    LET s == ToRGB(scale_node(r, scale, resizer))
    IN  IF s.raised # "" THEN s ELSE Ok(Apply(s.clip, Stage("text.Text", lbl, 0, 0)), s.log)

With(r, c) == [r EXCEPT !.clip = c]

Say(r, line) == IF r.raised # "" THEN r ELSE [r EXCEPT !.log = Append(@, line)]

\* A faulty BuildsGrid: --fast is not looked at.
BuildsGridWithFast(mode, fast) == mode = "composite"

\* The 2x2 grid is built for composite mode without --fast only.
BuildsGrid(mode, fast) == mode = "composite" /\ ~fast

\* A faulty SingleSuffix: the denoise tag depends on the stage, not the strength.
SingleSuffixByStage(q_suffix, denoise, denoise_stage, stabilize) ==
    ("Deint" \o q_suffix)
    \o (IF denoise_stage # "pre" THEN "DN" \o Capitalize(denoise) \o Capitalize(denoise_stage) ELSE "")
    \o (IF stabilize THEN "Stab" ELSE "")

\* The suffix of mode "single": the stage tags, in the order they are appended.
SingleSuffix(q_suffix, denoise, denoise_stage, stabilize) ==
    ("Deint" \o q_suffix)
    \o (IF denoise # "none" THEN "DN" \o Capitalize(denoise) \o Capitalize(denoise_stage) ELSE "")
    \o (IF stabilize THEN "Stab" ELSE "")

\* StackVertical([StackHorizontal([q1, q2]), StackHorizontal([q3, q4])])
Grid(q1, q2, q3, q4) ==
    [stages |-> <<>>, width |-> q1.width + q2.width, height |-> q1.height + q3.height,
     tiles |-> <<q1, q2, q3, q4>>]

Result(r, node, suffix, is_grid) ==
    [raised |-> r.raised, log |-> r.log, node |-> node, suffix |-> suffix, is_grid |-> is_grid]

\* get_output_node: (processed_node, filename_suffix, is_grid_mode), or the
\* exception that left it.
GetOutputNode(video, mode, fast, field, denoise, stabilize, scale, resizer, denoise_stage) ==
    LET q_preset_name == IF ~fast THEN "Very Slow" ELSE "Fast"
        q_suffix == RemoveSpaces(q_preset_name)
        field_str == IF field THEN "TFF" ELSE "BFF"
        r0 == IF denoise_stage = "pre" /\ denoise # "none"
              THEN Ok(video, <<Info("Applying noise reduction (PRE-deinterlacing stage)")>>)
              ELSE Ok(video, <<>>)
        v_prefilt == IF denoise_stage = "pre" THEN apply_noise_reduction(r0, denoise) ELSE r0
        v_deint == QTGMC(v_prefilt, q_preset_name, field)
        r1 == IF denoise_stage = "post" /\ denoise # "none"
              THEN Say(v_deint, Info("Applying noise reduction (POST-deinterlacing stage)"))
              ELSE v_deint
        v_dn == IF denoise_stage = "post" THEN apply_noise_reduction(r1, denoise) ELSE r1
        v_stab == apply_stabilization(v_dn, stabilize)
        r2 == IF mode = "composite" /\ fast
              THEN Say(v_stab, Warning("Composite grid mode is intentionally simplified when --fast is used."))
              ELSE v_stab
        q1 == prep(With(r2, video), "1. ORIGINAL (" \o field_str \o ")", scale, resizer)
        q2 == prep(With(q1, v_deint.clip),
                   "2. DE-INT (QTGMC " \o q_preset_name \o ", " \o field_str \o ")", scale, resizer)
        q3 == prep(With(q2, v_dn.clip),
                   "3. DE-INT + DN (" \o denoise \o ", " \o denoise_stage \o ")", scale, resizer)
        q4 == prep(With(q3, v_stab.clip), "4. ALL + STAB", scale, resizer)
        picked == IF mode = "original" THEN With(r2, video)
                  ELSE IF mode = "single" THEN r2
                  ELSE With(r2, v_deint.clip)
        suffix == IF mode = "original" THEN "Original"
                  ELSE IF mode = "single" THEN SingleSuffix(q_suffix, denoise, denoise_stage, stabilize)
                  ELSE "Deint" \o q_suffix
        single == ToRGB(scale_node(picked, scale, resizer))
    IN  IF r2.raised # "" THEN Result(r2, video, "", FALSE)
        ELSE IF BuildsGrid(mode, fast)
             THEN IF q4.raised # "" THEN Result(q4, video, "", FALSE)
                  ELSE Result(q4, Grid(q1.clip, q2.clip, q3.clip, q4.clip), "PriorityGrid", TRUE)
             ELSE IF single.raised # "" THEN Result(single, video, "", FALSE)
                  ELSE Result(single, single.clip, suffix, FALSE)

(* --------------------------- process_frame ---------------------------- *)

Min(a, b) == IF a < b THEN a ELSE b

\* start_frame: --frame if given, else int(seconds * fps + 0.5).
StartFrame(target_frame_num, time, fps) ==
    IF ~IsNone(target_frame_num) THEN Get(target_frame_num)
    ELSE (2 * time * fps[1] + fps[2]) \div (2 * fps[2])

\* sample.props.get('_FieldBased', 2); NoProp stands for an absent property.
NoProp == -1

PropsGet(hint, default) == IF hint = NoProp THEN default ELSE hint

\* The frame whose properties are sampled: min(start_frame, num_frames - 1).
SampleIndex(start, num_frames) == Min(start, num_frames - 1)

\* video.get_frame(n) raises outside 0 .. num_frames - 1.
GetFrameRaises(n, num_frames) == n < 0 \/ n >= num_frames

\* The field order and what is logged, once the sample frame (if needed) is read.
FieldOrder(tff_override, hint) ==
    IF ~IsNone(tff_override) THEN [tff |-> Get(tff_override) # 0, log |-> <<>>]
    ELSE LET fb == PropsGet(hint, 2)
         IN  IF fb = 1 THEN [tff |-> FALSE, log |-> <<Info("Detected field order: BFF")>>]
             ELSE IF fb = 2 THEN [tff |-> TRUE, log |-> <<Info("Detected field order: TFF")>>]
             ELSE IF fb = 0 THEN [tff |-> TRUE, log |-> <<Warning("Source is progressive")>>]
             ELSE [tff |-> TRUE, log |-> <<Warning("Unknown _FieldBased value")>>]

\* idx = start_frame + i * step
Idx(start, k, step) == start + k * step

\* A faulty InSource: the bound check off by one.
InSourceOffByOne(idx, num_frames) == ~(idx > num_frames)

\* The loop goes on while "idx >= video.num_frames" is false.
InSource(idx, num_frames) == ~(idx >= num_frames)

\* A faulty AfterWrite: a failed write ends the loop.
AfterWriteBreaks(k, ok, count) == IF ok THEN k + 1 ELSE count

\* The loop variable after the try/except around the write: both the write
\* and the except branch fall through to the next iteration.
AfterWrite(k, ok, count) == k + 1

\* name and path of the PNG for idx: base name and run timestamp are fixed per run.
Path(idx, suffix) == [dir |-> "output", base |-> "Clip", idx |-> idx, suffix |-> suffix]

\* The block of commands is printed for composite mode without --fast only.
PrintsCommands(mode, fast) == mode = "composite" /\ ~fast

\* One printed command: the flags it carries (None: the flag is not printed).
Command(base, m, d, x, t) == [i |-> base.i, f |-> base.f, s |-> base.s, r |-> base.r, m |-> m, d |-> d, x |-> x, t |-> t]

\* The four printed commands, in the order printed.
Commands(a, field) ==
    LET u_in == IF IsNone(a.host_input) THEN a.input ELSE Get(a.host_input)
        f_val == IF ~IsNone(a.frame) THEN <<"frame", Get(a.frame)>> ELSE <<"time", a.time>>
        tff_flag == IF IsNone(a.tff) THEN None ELSE Some(IF field THEN 1 ELSE 0)
        base == [i |-> u_in, f |-> f_val, s |-> a.scale, r |-> a.resizer]
    IN  << Command(base, "original", None, None, tff_flag),
           Command(base, "deint", Some("none"), None, tff_flag),
           Command(base, "single", Some(a.denoise), None, tff_flag),
           Command(base, "single", Some(a.denoise), Some(1), tff_flag) >>

Video == Clip(<<>>, env.width, env.height)

NoResult == Result(Ok(Clip(<<>>, 0, 0), <<>>), Clip(<<>>, 0, 0), "", FALSE)

(* ------------------------------ actions ------------------------------- *)

\* os.path.exists, ffms2.Source and the target frame.
OpenSource ==
    /\ pc = "open"
    /\ IF ~env.exists
       THEN /\ log' = Append(log, Error("Source file not found", 0))
            /\ pc' = "exit1"
            /\ UNCHANGED start_frame
       ELSE /\ start_frame' = StartFrame(args.frame, args.time, env.fps)
            /\ pc' = "field"
            /\ UNCHANGED log
    /\ UNCHANGED <<args, env, tff, out, i, attempted, printed, raised>>

\* Field order: the override, or the _FieldBased property of the sample frame.
DetectFieldOrder ==
    /\ pc = "field"
    /\ IF IsNone(args.tff) /\ GetFrameRaises(SampleIndex(start_frame, env.num_frames), env.num_frames)
       THEN /\ pc' = "crashed"
            /\ raised' = "get_frame"
            /\ UNCHANGED <<tff, log>>
       ELSE /\ tff' = FieldOrder(args.tff, env.hint).tff
            /\ log' = log \o FieldOrder(args.tff, env.hint).log
            /\ pc' = "assemble"
            /\ UNCHANGED raised
    /\ UNCHANGED <<args, env, start_frame, out, i, attempted, printed>>

\* get_output_node and os.makedirs.
Assemble ==
    /\ pc = "assemble"
    /\ LET r == GetOutputNode(Video, args.mode, args.fast, tff, args.denoise, args.stabilize # 0,
                              args.scale, args.resizer, args.denoise_stage)
       IN  /\ log' = log \o r.log
           /\ IF r.raised # ""
              THEN /\ pc' = "crashed"
                   /\ raised' = r.raised
                   /\ UNCHANGED out
              ELSE /\ pc' = "loop"
                   /\ out' = r
                   /\ UNCHANGED raised
    /\ i' = 0
    /\ UNCHANGED <<args, env, start_frame, tff, attempted, printed>>

\* One iteration of the loop that does not break: the write of frame idx,
\* which succeeds or raises.
ExtractFrame ==
    /\ pc = "loop"
    /\ i < args.count
    /\ InSource(Idx(start_frame, i, args.step), env.num_frames)
    /\ \E ok \in BOOLEAN :
         LET idx == Idx(start_frame, i, args.step)
         IN  /\ attempted' = Append(attempted, [idx |-> idx, path |-> Path(idx, out.suffix), ok |-> ok])
             /\ log' = Append(log, IF ok THEN [level |-> "INFO", msg |-> "Saved", n |-> idx]
                                         ELSE Error("Failed to write frame", idx))
             /\ i' = AfterWrite(i, ok, args.count)
    /\ UNCHANGED <<args, env, pc, start_frame, tff, out, printed, raised>>

\* The loop ends: range(count) is exhausted or idx >= num_frames breaks it.
ExitLoop ==
    /\ pc = "loop"
    /\ ~(i < args.count /\ InSource(Idx(start_frame, i, args.step), env.num_frames))
    /\ pc' = "commands"
    /\ UNCHANGED <<args, env, start_frame, tff, out, i, attempted, log, printed, raised>>

\* The reproduction commands, then the end of process_frame.
PrintCommands ==
    /\ pc = "commands"
    /\ printed' = IF PrintsCommands(args.mode, args.fast) THEN Commands(args, tff) ELSE <<>>
    /\ pc' = "done"
    /\ UNCHANGED <<args, env, start_frame, tff, out, i, attempted, log, raised>>

Next == OpenSource \/ DetectFieldOrder \/ Assemble \/ ExtractFrame \/ ExitLoop \/ PrintCommands

(* --------------------------- specifications --------------------------- *)

Modes == {"composite", "original", "single", "deint"}

Resizers == {"bicubic", "lanczos", "nnedi3_resample"}

Strengths == {"none", "light", "medium", "heavy"}

DenoiseStages == {"pre", "post"}

Overrides == {None, Some(0), Some(1)}

\* The argparse defaults, with the input path of the run.
ArgDefaults ==
    [input |-> "clip.avi", time |-> 0, frame |-> None, count |-> 1, step |-> 1, fast |-> FALSE,
     scale |-> 1, resizer |-> "bicubic", mode |-> "composite", tff |-> None, denoise |-> "medium",
     denoise_stage |-> "pre", stabilize |-> 0, host_input |-> None]

\* An environment in which the file exists and every capability runs.
EnvOk ==
    [exists |-> TRUE, num_frames |-> 2, fps |-> <<3, 2>>, width |-> 720, height |-> 480, hint |-> 2,
     fft3d |-> "ok", depan |-> "ok", znedi3 |-> "ok", qtgmc |-> "ok", deint_rate |-> 1]

Override(base, S) == { [x \in DOMAIN base |-> IF x \in DOMAIN r THEN r[x] ELSE base[x]] : r \in S }

InitOver(A, E) ==
    /\ args \in A
    /\ env \in E
    /\ pc = "open"
    /\ start_frame = 0
    /\ tff = TRUE
    /\ out = NoResult
    /\ i = 0
    /\ attempted = <<>>
    /\ log = <<>>
    /\ printed = <<>>
    /\ raised = ""

\* Frame requests: every (start or time, count, step) against every source length.
LoopArgs ==
    Override(ArgDefaults,
        [frame : {None} \cup {Some(n) : n \in -1..MaxStart}, time : 0..MaxSecs,
         count : 0..MaxCount, step : -1..MaxStep, mode : {"composite", "single"}, fast : BOOLEAN,
         tff : {None, Some(1)}])

LoopEnvs == Override(EnvOk, [num_frames : 1..MaxFrames, exists : BOOLEAN])

InitLoop == InitOver({a \in LoopArgs : IsNone(a.frame) \/ a.time = 0}, LoopEnvs)

SpecLoop == InitLoop /\ [][Next]_vars

\* Field order: every override against every hint, start and source length.
FieldArgs ==
    Override(ArgDefaults,
        [frame : {Some(n) : n \in -1..MaxStart}, tff : Overrides, mode : Modes, fast : BOOLEAN])

FieldEnvs == Override(EnvOk, [num_frames : 1..MaxFrames, hint : NoProp..MaxHint])

InitField == InitOver(FieldArgs, FieldEnvs)

SpecField == InitField /\ [][Next]_vars

\* Configurations: every pipeline configuration, every capability running.
CfgArgs ==
    Override(ArgDefaults,
        [mode : Modes, fast : BOOLEAN, denoise : Strengths, denoise_stage : DenoiseStages,
         stabilize : 0..1, scale : 1..MaxScale, resizer : Resizers, tff : Overrides])

CfgEnvs == Override(EnvOk, [width : {720, 1440}])

InitCfg == InitOver(CfgArgs, CfgEnvs)

SpecCfg == InitCfg /\ [][Next]_vars

\* Capabilities: every outcome of every external capability.
CapArgs ==
    Override(ArgDefaults,
        [mode : Modes, fast : BOOLEAN, denoise : {"none", "medium"}, denoise_stage : DenoiseStages,
         stabilize : 0..1, scale : 1..MaxScale, resizer : Resizers])

CapEnvs ==
    Override(EnvOk,
        [fft3d : {"ok", "missing", "error"}, depan : {"ok", "error"}, znedi3 : {"ok", "missing"},
         qtgmc : {"ok", "fail_slow", "fail_all"}, deint_rate : 1..2])

Init == InitOver(CapArgs, CapEnvs)

Spec == Init /\ [][Next]_vars

(* ------------------------------- claims ------------------------------- *)

Started == pc \in {"loop", "commands", "done"}

LoopOver == pc \in {"commands", "done"}

\* How many of the indices start, start + step, ... (count of them) come
\* before the first one at or past the end of a source of n frames.
InRangePrefix(start, count, step, n) ==
    Cardinality({k \in 0..(count - 1) : \A j \in 0..k : start + j * step < n})

LogHas(level, msg, n) == \E k \in 1..Len(log) : log[k] = [level |-> level, msg |-> msg, n |-> n]

\* C1: every frame the loop asks for is start + k*step for some k < count and
\* lies before the end of the source; the loop ends, without an exception,
\* at the first index at or past the end, so that a request running past the
\* end extracts fewer than count frames.
C1_LoopStaysInSource ==
    /\ \A k \in 1..Len(attempted) :
         /\ attempted[k].idx = start_frame + (k - 1) * args.step
         /\ attempted[k].idx < env.num_frames
         /\ k <= args.count
    /\ Started => raised = ""
    /\ LoopOver =>
         /\ Len(attempted) = InRangePrefix(start_frame, args.count, args.step, env.num_frames)
         /\ (\E k \in 0..(args.count - 1) : start_frame + k * args.step >= env.num_frames)
              => Len(attempted) < args.count

\* C1 witness: a finished run that started near the end of the source and
\* extracted some frames, but fewer than count.
C1_Witness ==
    /\ pc = "done"
    /\ Len(attempted) >= 1
    /\ Len(attempted) < args.count
    /\ args.step >= 1

\* C4: a failed write is logged with its index and stops nothing: when the
\* loop is over, the indices attempted are all the in-range ones of the
\* request, whatever the outcome of each write.
C4_WriteFailureContinues ==
    /\ \A k \in 1..Len(attempted) :
         ~attempted[k].ok => LogHas("ERROR", "Failed to write frame", attempted[k].idx)
    /\ Started => pc # "crashed" /\ raised = ""
    /\ LoopOver =>
         /\ Len(attempted) = InRangePrefix(start_frame, args.count, args.step, env.num_frames)
         /\ \A k \in 1..Len(attempted) : attempted[k].idx = start_frame + (k - 1) * args.step

\* C4 witness: a finished run in which a write failed and a later index was
\* attempted all the same.
C4_Witness ==
    /\ pc = "done"
    /\ \E j, k \in 1..Len(attempted) : j < k /\ ~attempted[j].ok /\ attempted[k].ok

\* C5: the indices attempted are strictly increasing, so no index and no
\* output path is attempted twice.
C5_StrictlyIncreasing ==
    \A j, k \in 1..Len(attempted) :
        j < k => attempted[j].idx < attempted[k].idx /\ attempted[j].path # attempted[k].path

\* C6: composite mode with --fast returns no grid: is_grid is false, the
\* suffix is not the grid's, the node is the one mode "deint" returns, and no
\* command is printed; grid and commands come exactly with composite mode
\* without --fast.
C6_FastCompositeIsNoGrid ==
    /\ Started =>
         /\ out.is_grid <=> (args.mode = "composite" /\ ~args.fast)
         /\ out.is_grid <=> out.suffix = "PriorityGrid"
         /\ out.is_grid <=> Len(out.node.tiles) = 4
         /\ (args.mode = "composite" /\ args.fast) =>
              /\ out.suffix = "DeintFast"
              /\ out.node.tiles = <<>>
              /\ \E k \in 1..Len(out.node.stages) : out.node.stages[k].op = "QTGMC"
              /\ \A k \in 1..Len(out.node.stages) : out.node.stages[k].op # "text.Text"
    /\ pc = "done" => (printed # <<>> <=> (args.mode = "composite" /\ ~args.fast))
    /\ pc # "done" => printed = <<>>

\* C6 witness: a finished composite run with --fast: no grid, no commands.
C6_Witness ==
    /\ pc = "done"
    /\ args.mode = "composite"
    /\ args.fast
    /\ ~out.is_grid
    /\ printed = <<>>
    /\ Len(attempted) >= 1

\* The tags of the suffix of mode "single", written out.
PresetTag == IF args.fast THEN "DeintFast" ELSE "DeintVerySlow"

DenoiseTag ==
    CASE args.denoise = "none" -> ""
      [] args.denoise = "light" /\ args.denoise_stage = "pre" -> "DNLightPre"
      [] args.denoise = "light" /\ args.denoise_stage = "post" -> "DNLightPost"
      [] args.denoise = "medium" /\ args.denoise_stage = "pre" -> "DNMediumPre"
      [] args.denoise = "medium" /\ args.denoise_stage = "post" -> "DNMediumPost"
      [] args.denoise = "heavy" /\ args.denoise_stage = "pre" -> "DNHeavyPre"
      [] args.denoise = "heavy" /\ args.denoise_stage = "post" -> "DNHeavyPost"

StabTag == IF args.stabilize # 0 THEN "Stab" ELSE ""

\* C7: in mode "single" the suffix is the deinterlace preset tag, then the
\* denoise tag (strength and stage) iff denoise is not "none", then "Stab"
\* iff stabilization is on; with neither it is the preset tag alone.
C7_SingleSuffix ==
    (Started /\ args.mode = "single") =>
        /\ out.suffix = PresetTag \o DenoiseTag \o StabTag
        /\ (args.denoise = "none" /\ args.stabilize = 0) => out.suffix = PresetTag

\* C7 witness: a single-mode run with all three tags in its suffix.
C7_Witness ==
    /\ pc = "done"
    /\ args.mode = "single"
    /\ args.denoise = "medium"
    /\ args.denoise_stage = "post"
    /\ args.stabilize = 1
    /\ out.suffix = "DeintFastDNMediumPostStab"

\* C8: field-order resolution never ends the run, and gives the override if
\* there is one, else BFF exactly for a BFF-coded hint.
C8_FieldOrderTotal ==
    /\ ~(pc = "crashed" /\ raised = "get_frame")
    /\ pc \in {"assemble", "loop", "commands", "done"} =>
         tff = IF ~IsNone(args.tff) THEN Get(args.tff) = 1 ELSE env.hint # 1

\* The deinterlaced clip has been built.
DeintBuilt == Started \/ (pc = "crashed" /\ raised = "znedi3")

\* C2: when the deinterlaced clip's frame rate is not the source's, the run
\* stops before a frame is extracted.
C2_RateMismatchIsFatal == (DeintBuilt /\ env.deint_rate # 1) => (pc = "crashed" /\ attempted = <<>>)

\* The noise reduction filter was called.
DenoiseCalled == args.denoise # "none" /\ (args.denoise_stage = "pre" \/ raised # "QTGMC")

\* A log line at warning level or above.
Warned == \E k \in 1..Len(log) : log[k].level \in {"WARNING", "ERROR"}

\* C3: an optional stage (denoise, stabilize, neural resampling) whose plugin
\* cannot run never ends the run: it is skipped with a warning and
\* extraction follows.
C3_OptionalStagesDegrade ==
    /\ ~(pc = "crashed" /\ raised = "znedi3" /\ env.znedi3 = "missing")
    /\ ~(pc = "crashed" /\ raised = "FFT3DFilter" /\ env.fft3d = "missing")
    /\ (Started /\ DenoiseCalled /\ env.fft3d = "missing") => Warned
    /\ (Started /\ args.stabilize # 0 /\ env.depan # "ok") => Warned
    /\ (Started /\ args.scale # 1 /\ args.resizer = "nnedi3_resample" /\ env.znedi3 # "ok") => Warned

\* C9: a run ends on the deinterlacer only when the reduced preset fails as
\* well as the high-quality one.
C9_DeintRetriesReduced == (pc = "crashed" /\ raised = "QTGMC") => env.qtgmc = "fail_all"

\* A quadrant of the grid without its text label.
Unlabelled(c) == SelectSeq(c.stages, LAMBDA st : st.op # "text.Text")

\* The node a printed command builds when run on the same source, the flags
\* it does not carry at their argparse defaults.
Rerun(c) ==
    LET a == [ArgDefaults EXCEPT !.mode = c.m, !.scale = c.s, !.resizer = c.r, !.tff = c.t,
                                 !.denoise = IF IsNone(c.d) THEN @ ELSE Get(c.d),
                                 !.stabilize = IF IsNone(c.x) THEN @ ELSE Get(c.x)]
    IN  GetOutputNode(Video, a.mode, a.fast, FieldOrder(a.tff, env.hint).tff, a.denoise,
                      a.stabilize # 0, a.scale, a.resizer, a.denoise_stage)

\* C10: each printed command builds the stages of the quadrant it is
\* numbered after.
C10_CommandsMatchQuadrants ==
    (pc = "done" /\ printed # <<>>) =>
        \A k \in 1..4 : Rerun(printed[k]).raised = ""
                        /\ Rerun(printed[k]).node.stages = Unlabelled(out.node.tiles[k])

====
